---- MODULE Spec2Model ----
(***************************************************************************)
(* The polls backend (src/polls): the relational store of Poll, Question,  *)
(* ChoiceAnswer and Answer rows, the admin question CRUD, and the vote     *)
(* submission (permission, validation, transactional write).               *)
(*                                                                         *)
(* The store is the committed content of the database.  A request that is  *)
(* inside its `transaction.atomic` block keeps its uncommitted rows in tx; *)
(* statements read the committed rows plus the request's own (READ         *)
(* COMMITTED), and unique constraints compare NULL as distinct from every  *)
(* value, NULL included (SQL; the reason models.py carries                 *)
(* _validate_unique_together_for_null_fields).                             *)
(***************************************************************************)
EXTENDS Integers, Sequences, FiniteSets, TLC

VARIABLES now, polls, questions, choices, store, pc, req, tx, idx, resp, calls, last

vars == <<now, polls, questions, choices, store, pc, req, tx, idx, resp, calls, last>>

(***************************************************************************)
(* Values                                                                  *)
(***************************************************************************)
\* SQL NULL / Python None in an integer column (user_id, anonymous_id).
NULL == -1
\* A key that the request body does not carry.
ABSENT == -2
\* None in the text column, and a query parameter that is not given.
NoText == "<none>"
QABSENT == "<absent>"

TEXT == "text"
SINGLE == "single_choice"
MULTI == "multi_choice"
QuestionType == {TEXT, SINGLE, MULTI}

\* Bounds of the model.
MaxCalls == 1
MaxRevoteCalls == 2
MaxConcCalls == 2
MaxActiveCalls == 1
MaxAnswers == 2
MaxTime == 3
MaxQuestions == 1

Procs == {1, 2}
PollIds == {1, 2}
\* Primary keys a URL may name: the polls and one that does not exist.
PollKeys == PollIds \cup {3}
Users == {1}

\* Python truthiness of an integer-or-None and of a query-string value.
Truthy(v) == v \notin {NULL, ABSENT, 0}
QueryTruthy(s) == s \notin {QABSENT, ""}
\* request.query_params.get('anonymous_id'): not given, empty, "0", "5".
QueryValues == {QABSENT, "", "0", "5"}

(***************************************************************************)
(* Schema helpers                                                          *)
(***************************************************************************)
QuestionIds == {q.id : q \in questions}
ChoiceIds == {c.id : c \in choices}
QuestionById(id) == CHOOSE q \in questions : q.id = id
ChoiceById(id) == CHOOSE c \in choices : c.id = id
QuestionsOf(poll) == {q.id : q \in {x \in questions : x.poll = poll}}
ChoicesOf(question) == {c \in choices : c.question = question}
Range(s) == {s[i] : i \in 1..Len(s)}

\* UserPolls.queryset: every poll.  UserPolls.get_queryset(): the active ones.
queryset == PollIds
get_queryset ==
  {p \in PollIds : polls[p].start_date < now /\ polls[p].end_date > now
                   /\ polls[p].is_published}

(***************************************************************************)
(* Vote submission: permission                                             *)
(***************************************************************************)
HasPermission(user, query, body) ==
  LET is_anonymous_id == QueryTruthy(query) \/ Truthy(body)
      is_authenticated == user # NULL
  IN  ~(is_authenticated = is_anonymous_id)

(***************************************************************************)
(* Vote submission: validation                                             *)
(***************************************************************************)
\* Field level: the related-field lookups of one answer.
AnswerFieldsOk(a) ==
  /\ a.question \in QuestionIds
  /\ \A i \in 1..Len(a.choice) : a.choice[i] \in ChoiceIds

\* AnswerSerializer.validate: "ok", an error message, or "TypeError" for
\* len(None).
AnswerValidate(a) ==
  LET question_type == QuestionById(a.question).type IN
  CASE question_type = TEXT ->
         IF a.has_choice THEN "This is text question, not choice" ELSE "ok"
    [] question_type = SINGLE ->
         IF ~a.has_choice THEN "TypeError"
         ELSE IF Len(a.choice) > 1 \/ a.text # NoText
              THEN "This question only for one choice and choice field not contains text"
              ELSE "ok"
    [] question_type = MULTI ->
         IF a.text # NoText THEN "Choice field not contains text" ELSE "ok"

\* UserPollSerializer.validate without the comparison of the two question sets.
UserPollValidateCountOnly(pk, answers) ==
  IF \E i \in 1..Len(answers) : pk # QuestionById(answers[i].question).poll
    THEN [status |-> 400, detail |-> "Invalid question id for this poll"]
  ELSE IF pk \notin queryset
    THEN [status |-> 500, detail |-> "Poll.DoesNotExist"]
  ELSE IF Cardinality(QuestionsOf(pk)) # Len(answers)
    THEN [status |-> 400, detail |-> "pls answer the all questions"]
  ELSE [status |-> 200, detail |-> "ok"]

\* UserPollSerializer.validate
UserPollValidate(pk, answers) ==
  IF \E i \in 1..Len(answers) : pk # QuestionById(answers[i].question).poll
    THEN [status |-> 400, detail |-> "Invalid question id for this poll"]
  ELSE IF pk \notin queryset
    THEN [status |-> 500, detail |-> "Poll.DoesNotExist"]
  ELSE IF Cardinality(QuestionsOf(pk)) # Len(answers)
    THEN [status |-> 400, detail |-> "pls answer the all questions"]
  ELSE IF {answers[i].question : i \in 1..Len(answers)} # QuestionsOf(pk)
    THEN [status |-> 400, detail |-> "Invalid question ids for this poll"]
  ELSE [status |-> 200, detail |-> "ok"]

\* serializer.is_valid(raise_exception=True): the fields in declaration order
\* (answers, anonymous_id), then UserPollSerializer.validate.
IsValid(body, pk, answers) ==
  LET checked == {i \in 1..Len(answers) : AnswerFieldsOk(answers[i])} IN
  IF \E i \in checked : AnswerValidate(answers[i]) = "TypeError"
    THEN [status |-> 500, detail |-> "TypeError"]
  ELSE IF \E i \in 1..Len(answers) : i \notin checked
    THEN [status |-> 400, detail |-> "object does not exist"]
  ELSE IF \E i \in checked : AnswerValidate(answers[i]) # "ok"
    THEN [status |-> 400, detail |-> "answer shape"]
  ELSE IF body = ABSENT
    THEN [status |-> 400, detail |-> "This field is required"]
  ELSE UserPollValidate(pk, answers)

(***************************************************************************)
(* Vote submission: the write phase                                        *)
(***************************************************************************)
NoReq == [user |-> NULL, anonymous_id |-> NULL, pk |-> 0, answers |-> <<>>]
\* The last response of a process: HTTP status, rows created by the call before
\* it ended, and the number of the call (0: it never reached the write phase).
NoResp == [status |-> 0, created |-> 0, call |-> 0]

\* The Answer row that UserPollSerializer.create builds for answer k of the
\* request of process p (call is the row's surrogate: the call that made it).
AnswerRow(p) ==
  LET a == req[p].answers[idx[p]] IN
  [call |-> resp[p].call, question |-> a.question, text |-> a.text,
   choice |-> Range(a.choice),
   user |-> req[p].user, anonymous_id |-> req[p].anonymous_id]

\* Rows that a statement of process p reads.
Visible(p) == store \cup tx[p]

\* UniqueTogetherValidator._validate_unique_together_for_null_fields:
\* filter(user=..., anonymous_id=..., question=...).exists(); None is IS NULL.
Exists(rows, row) ==
  \E r \in rows : /\ r.user = row.user
                  /\ r.anonymous_id = row.anonymous_id
                  /\ r.question = row.question

\* The unique_together constraint of Answer, as the database applies it.
UniqueConflict(r, row) ==
  /\ r.user = row.user /\ r.user # NULL
  /\ r.anonymous_id = row.anonymous_id /\ r.anonymous_id # NULL
  /\ r.question = row.question

\* vote_in_poll without its transaction: every per-answer block commits.
OnExceptionKeep(committed, pending) == committed \cup pending

\* @transaction.atomic on vote_in_poll: what is committed when the handler
\* raises, and when it returns.
OnException(committed, pending) == committed
OnSuccess(committed, pending) == committed \cup pending

Fail(p, status, detail) ==
  /\ store' = OnException(store, tx[p])
  /\ resp' = [resp EXCEPT ![p] = [status |-> status,
                                  created |-> Cardinality(tx[p]),
                                  call |-> resp[p].call]]
  /\ pc' = [pc EXCEPT ![p] = "idle"]
  /\ tx' = [tx EXCEPT ![p] = {}]
  /\ req' = [req EXCEPT ![p] = NoReq]
  /\ idx' = [idx EXCEPT ![p] = 0]

\* Whether UserPollsPermission lets some request of this caller with this body
\* through (the query string is read by the permission alone).
Permitted(user, body) == \E query \in QueryValues : HasPermission(user, query, body)

\* A request that UserPollsPermission refuses: 403 before the handler runs.
PermissionDenied(p, callers, bodies) ==
  /\ pc[p] = "idle"
  /\ \E user \in callers, body \in bodies :
       \E query \in QueryValues : ~HasPermission(user, query, body)
  /\ resp' = [resp EXCEPT ![p] = [status |-> 403,
                                  created |-> 0, call |-> 0]]
  /\ UNCHANGED <<now, polls, questions, choices, store, pc, req, tx, idx, calls, last>>

\* vote_in_poll up to serializer.save(): is_valid raises, or the request
\* enters the write phase.
VoteInPoll(p, callers, bodies, payloads, cap) ==
  /\ pc[p] = "idle"
  /\ calls < cap
  /\ \E pk \in PollKeys, answers \in payloads, body \in bodies :
       LET v == IsValid(body, pk, answers) IN
       IF v.status # 200
       THEN /\ \E user \in callers : Permitted(user, body)
            /\ resp' = [resp EXCEPT ![p] =
                          [status |-> v.status,
                           created |-> 0, call |-> 0]]
            /\ UNCHANGED <<pc, req, tx, idx, calls>>
       ELSE \E user \in {u \in callers : Permitted(u, body)} :
              /\ calls' = calls + 1
              /\ req' = [req EXCEPT ![p] =
                           [user |-> user, anonymous_id |-> body,
                            pk |-> pk, answers |-> answers]]
              /\ resp' = [resp EXCEPT ![p] =
                            [status |-> 0, created |-> 0,
                             call |-> calls + 1]]
              /\ tx' = [tx EXCEPT ![p] = {}]
              /\ idx' = [idx EXCEPT ![p] = 1]
              /\ pc' = [pc EXCEPT ![p] =
                          IF Len(answers) = 0 THEN "commit" ELSE "check"]
  /\ UNCHANGED <<now, polls, questions, choices, store, last>>

\* Answer.save before the INSERT: the identity check and the existence check.
Check(p) ==
  /\ pc[p] = "check"
  /\ LET row == AnswerRow(p) IN
     IF row.user # NULL /\ Truthy(row.anonymous_id)
       THEN Fail(p, 400, "Cant use user auth and anonymous token both")
     ELSE IF Exists(Visible(p), row)
       THEN Fail(p, 400, "Value not unique")
     ELSE /\ pc' = [pc EXCEPT ![p] = "insert"]
          /\ UNCHANGED <<store, resp, tx, req, idx>>
  /\ UNCHANGED <<now, polls, questions, choices, calls, last>>

\* The INSERT of process p waits for a transaction in flight that holds a row
\* with the same unique key.
Blocked(p) ==
  /\ pc[p] = "insert"
  /\ \E q \in Procs \ {p} : \E r \in tx[q] : UniqueConflict(r, AnswerRow(p))

\* super().save and answer.choice.add inside the per-answer savepoint.
Insert(p) ==
  /\ pc[p] = "insert"
  /\ ~Blocked(p)
  /\ LET row == AnswerRow(p) IN
     IF \E r \in Visible(p) : UniqueConflict(r, row)
       THEN Fail(p, 500, "IntegrityError")
     ELSE /\ tx' = [tx EXCEPT ![p] = tx[p] \cup {row}]
          /\ idx' = [idx EXCEPT ![p] = idx[p] + 1]
          /\ pc' = [pc EXCEPT ![p] =
                      IF idx[p] = Len(req[p].answers) THEN "commit" ELSE "check"]
          /\ UNCHANGED <<store, resp, req>>
  /\ UNCHANGED <<now, polls, questions, choices, calls, last>>

\* Two inserts that wait for each other: the database aborts one of them.
DeadlockAbort(p) ==
  /\ Blocked(p)
  /\ \E q \in Procs \ {p} :
       /\ Blocked(q)
       /\ \E r \in tx[p] : UniqueConflict(r, AnswerRow(q))
  /\ Fail(p, 500, "deadlock detected")
  /\ UNCHANGED <<now, polls, questions, choices, calls, last>>

\* vote_in_poll returns: the transaction commits, 201.
Commit(p) ==
  /\ pc[p] = "commit"
  /\ store' = OnSuccess(store, tx[p])
  /\ resp' = [resp EXCEPT ![p] = [status |-> 201,
                                  created |-> Cardinality(tx[p]),
                                  call |-> resp[p].call]]
  /\ pc' = [pc EXCEPT ![p] = "idle"]
  /\ tx' = [tx EXCEPT ![p] = {}]
  /\ req' = [req EXCEPT ![p] = NoReq]
  /\ idx' = [idx EXCEPT ![p] = 0]
  /\ UNCHANGED <<now, polls, questions, choices, calls, last>>

(***************************************************************************)
(* Inputs                                                                  *)
(***************************************************************************)
Callers == Users \cup {NULL}
BodyValues == {ABSENT, NULL, 0, 5}
Answer(question, text, has, choice) ==
  [question |-> question, text |-> text, has_choice |-> has, choice |-> choice]
\* Answers to question 1 (single_choice, choice 1), question 2 (text) and
\* question 3 (multi_choice, choice 2, of the other poll).
AnswerInputs ==
  {Answer(1, NoText, TRUE, <<1>>), Answer(1, NoText, TRUE, <<>>),
   Answer(1, NoText, FALSE, <<>>), Answer(1, NoText, TRUE, <<1, 2>>),
   Answer(1, NoText, TRUE, <<2>>), Answer(1, "t", TRUE, <<1>>),
   Answer(2, "t", FALSE, <<>>), Answer(2, "t", TRUE, <<1>>),
   Answer(3, NoText, TRUE, <<2>>), Answer(3, "t", TRUE, <<2>>)}
SeqsUpTo(S, n) == UNION {[1..k -> S] : k \in 0..n}
Payloads == SeqsUpTo(AnswerInputs, MaxAnswers)
\* The complete, well-shaped submissions for poll 1 (either order) and poll 2.
ValidPayloads ==
  {<<Answer(1, NoText, TRUE, <<1>>), Answer(2, "t", FALSE, <<>>)>>,
   <<Answer(2, "t", FALSE, <<>>), Answer(1, NoText, TRUE, <<1>>)>>,
   <<Answer(3, NoText, TRUE, <<2>>)>>}
EndDates == {1, 2}

(***************************************************************************)
(* Initial states                                                          *)
(***************************************************************************)
\* The last response of the question admin API: the poll of the URL and the
\* HTTP status.
NoLast == [poll |-> 0, status |-> 0]
PollEnd == 2
FixedQuestions ==
  {[id |-> 1, poll |-> 1, text |-> "a", type |-> SINGLE],
   [id |-> 2, poll |-> 1, text |-> "b", type |-> TEXT],
   [id |-> 3, poll |-> 2, text |-> "a", type |-> MULTI]}
FixedChoices ==
  {[id |-> 1, question |-> 1, text |-> "x"],
   [id |-> 2, question |-> 3, text |-> "x"]}

InitRequests ==
  /\ store = {}
  /\ pc = [p \in Procs |-> "idle"]
  /\ req = [p \in Procs |-> NoReq]
  /\ tx = [p \in Procs |-> {}]
  /\ idx = [p \in Procs |-> 0]
  /\ resp = [p \in Procs |-> NoResp]
  /\ calls = 0
  /\ last = NoLast

\* Two published, active polls with their questions, as the admin API leaves
\* them.
Init ==
  /\ now = 1
  /\ polls = [p \in PollIds |->
                [is_published |-> TRUE, start_date |-> 0, end_date |-> PollEnd]]
  /\ questions = FixedQuestions
  /\ choices = FixedChoices
  /\ InitRequests

(***************************************************************************)
(* Time and the poll admin API                                             *)
(***************************************************************************)
Tick ==
  /\ now < MaxTime
  /\ now' = now + 1
  /\ UNCHANGED <<polls, questions, choices, store, pc, req, tx, idx, resp, calls, last>>

\* PollAdminViewSet.update: PUT of a poll; start_date is not editable.
PollUpdate(pk, is_published, end_date) ==
  /\ polls' = [polls EXCEPT ![pk] = [is_published |-> is_published,
                                     start_date |-> polls[pk].start_date,
                                     end_date |-> end_date]]
  /\ UNCHANGED <<now, questions, choices, store, pc, req, tx, idx, resp, calls, last>>

(***************************************************************************)
(* The question admin API (QuestionAdminViewSet, QuestionSerializer)       *)
(***************************************************************************)
\* The "choices" key of a question body: not given, null, or a list of texts.
ChoicesAbsent == [kind |-> "absent", texts |-> <<>>]
ChoicesNull == [kind |-> "null", texts |-> <<>>]
ChoicesList(texts) == [kind |-> "list", texts |-> texts]
ChoiceInputs ==
  {ChoicesAbsent, ChoicesNull, ChoicesList(<<>>), ChoicesList(<<"x">>),
   ChoicesList(<<"x", "y">>), ChoicesList(<<"x", "x">>)}
QuestionTexts == {"a", "b"}
\* The types the admin submits: QuestionSerializer tests the type for
\* single_choice alone, so text and multi_choice take the same path.
AdminTypes == {SINGLE, MULTI}

\* The next primary key of a table.
NewId(used) == CHOOSE i \in 1..(Cardinality(used) + 1) :
                 i \notin used /\ \A j \in 1..(i - 1) : j \in used
RECURSIVE NewIds(_, _)
NewIds(used, n) ==
  IF n = 0 THEN <<>>
  ELSE LET i == NewId(used) IN <<i>> \o NewIds(used \cup {i}, n - 1)

\* QuestionSerializer.validate: the choices of one body are distinct.
ChoicesUnique(c) ==
  c.kind # "list" \/ Cardinality(Range(c.texts)) = Len(c.texts)

\* QuestionSerializer._save_choices: the rows bulk_create adds.
SavedChoices(question, c, used) ==
  IF c.kind = "list" /\ Len(c.texts) > 0
  THEN LET ids == NewIds(used, Len(c.texts)) IN
       {[id |-> ids[i], question |-> question, text |-> c.texts[i]] :
          i \in 1..Len(c.texts)}
  ELSE {}

\* The count check applied to a non-empty list alone.
SingleChoiceCheckNonEmpty(type, c) ==
  IF type = SINGLE /\ c.kind = "list" /\ Len(c.texts) > 1
  THEN "Single choice allow only one choice"
  ELSE "ok"

\* The count check of QuestionSerializer.create on the popped choices:
\* "ok", "TypeError" (len(None)) or the validation error.
SingleChoiceCheck(type, c) ==
  IF type \in {MULTI, SINGLE} /\ type = SINGLE
  THEN IF c.kind = "null" THEN "TypeError"
       ELSE IF Len(c.texts) # 1 THEN "Single choice allow only one choice"
       ELSE "ok"
  ELSE "ok"

\* @transaction.atomic on QuestionAdminViewSet.create/update: the tables after
\* the handler raised.
AdminOnException(before, after) == before

\* destroy without its publication guard.
DestroyNeverRefused(poll_pk) == FALSE

\* The publication guard of QuestionAdminViewSet.destroy.
DestroyRefused(poll_pk) == polls[poll_pk].is_published

\* Deleting choices removes their links from the answers (the M2M rows).
Unlink(rows, gone) ==
  {[r EXCEPT !.choice = r.choice \ gone] : r \in rows}

\* POST /admin/{poll_pk}/questions/
QuestionCreate(poll_pk, text, type, c) ==
  LET question == [id |-> NewId(QuestionIds), poll |-> poll_pk, text |-> text,
                   type |-> type]
      inserted == questions \cup {question}
      count == SingleChoiceCheck(type, c)
      \* what ends the request before Question.objects.create has inserted
      early ==
        IF poll_pk \notin PollIds THEN 404
        ELSE IF ~ChoicesUnique(c) THEN 400
        ELSE IF polls[poll_pk].is_published THEN 400
        ELSE IF \E q \in questions : q.poll = poll_pk /\ q.text = text THEN 400
        ELSE 0
      status ==
        IF early # 0 THEN early
        ELSE IF count = "TypeError" THEN 500
        ELSE IF count # "ok" THEN 400
        ELSE 201
  IN
  /\ status = 201 => Cardinality(questions) < MaxQuestions
  /\ IF status = 201
     THEN /\ questions' = inserted
          /\ choices' = choices \cup SavedChoices(question.id, c, ChoiceIds)
     ELSE IF early = 0
     THEN \* raised after the insert: the transaction rolls back
          /\ questions' = AdminOnException(questions, inserted)
          /\ choices' = choices
     ELSE UNCHANGED <<questions, choices>>
  /\ last' = [poll |-> poll_pk, status |-> status]
  /\ UNCHANGED <<now, polls, store, pc, req, tx, idx, resp, calls>>

\* PUT /admin/{poll_pk}/questions/{id}/
QuestionUpdate(poll_pk, id, text, type, c) ==
  LET found == poll_pk \in PollIds
               /\ \E q \in questions : q.id = id /\ q.poll = poll_pk
      instance == QuestionById(id)
      old == ChoicesOf(id)
      kept == choices \ old
      updated == [instance EXCEPT !.text = text, !.type = type]
      status ==
        IF ~found THEN 404
        ELSE IF ~ChoicesUnique(c) THEN 400
        ELSE IF polls[poll_pk].is_published THEN 400
        ELSE IF \E q \in questions :
                  q.id # id /\ q.poll = poll_pk /\ q.text = text THEN 500
        ELSE 200
  IN
  /\ IF status = 200
     THEN /\ questions' = (questions \ {instance}) \cup {updated}
          /\ choices' = kept \cup SavedChoices(id, c, {x.id : x \in kept})
          /\ store' = Unlink(store, {x.id : x \in old})
     ELSE IF status = 500
     THEN \* IntegrityError of instance.save() after the choices were replaced
          /\ questions' = questions
          /\ choices' = AdminOnException(choices,
                          kept \cup SavedChoices(id, c, {x.id : x \in kept}))
          /\ store' = store
     ELSE UNCHANGED <<questions, choices, store>>
  /\ last' = [poll |-> poll_pk, status |-> status]
  /\ UNCHANGED <<now, polls, pc, req, tx, idx, resp, calls>>

\* DELETE /admin/{poll_pk}/questions/{id}/
QuestionDestroy(poll_pk, id) ==
  LET found == \E q \in questions : q.id = id /\ q.poll = poll_pk
      gone == {x.id : x \in ChoicesOf(id)}
      status ==
        IF poll_pk \notin PollIds THEN 404
        ELSE IF DestroyRefused(poll_pk) THEN 400
        ELSE IF ~found THEN 404
        ELSE 204
  IN
  /\ IF status = 204
     THEN /\ questions' = questions \ {QuestionById(id)}
          /\ choices' = choices \ ChoicesOf(id)
          /\ store' = Unlink({r \in store : r.question # id}, gone)
     ELSE UNCHANGED <<questions, choices, store>>
  /\ last' = [poll |-> poll_pk, status |-> status]
  /\ UNCHANGED <<now, polls, pc, req, tx, idx, resp, calls>>

\* Two unpublished polls without questions.
InitAdmin ==
  /\ now = 1
  /\ polls = [p \in PollIds |->
                [is_published |-> FALSE, start_date |-> 0, end_date |-> PollEnd]]
  /\ questions = {}
  /\ choices = {}
  /\ InitRequests

(***************************************************************************)
(* Specifications                                                          *)
(***************************************************************************)
\* One request at a time, every shape of request.
Next ==
  \/ PermissionDenied(1, Callers, BodyValues)
  \/ VoteInPoll(1, Callers, BodyValues, Payloads, MaxCalls)
  \/ Check(1)
  \/ Insert(1)
  \/ Commit(1)

Spec == Init /\ [][Next]_vars

\* One request at a time, voters who submit again.
NextRevote ==
  \/ PermissionDenied(1, Callers, BodyValues)
  \/ VoteInPoll(1, Callers, BodyValues, ValidPayloads, MaxRevoteCalls)
  \/ Check(1)
  \/ Insert(1)
  \/ Commit(1)

SpecRevote == Init /\ [][NextRevote]_vars

\* Votes while time passes and the admin publishes and unpublishes polls.
NextActive ==
  \/ Tick
  \/ \E pk \in PollIds, is_published \in BOOLEAN, end_date \in EndDates :
       PollUpdate(pk, is_published, end_date)
  \/ PermissionDenied(1, Callers, BodyValues)
  \/ VoteInPoll(1, Callers, BodyValues, ValidPayloads, MaxActiveCalls)
  \/ Check(1)
  \/ Insert(1)
  \/ Commit(1)

SpecActive == Init /\ [][NextActive]_vars

\* Requests of two processes interleaved statement by statement.
NextConc ==
  \E p \in Procs :
    \/ PermissionDenied(p, Callers, BodyValues)
    \/ VoteInPoll(p, Callers, BodyValues, ValidPayloads, MaxConcCalls)
    \/ Check(p)
    \/ Insert(p)
    \/ DeadlockAbort(p)
    \/ Commit(p)

SpecConc == Init /\ [][NextConc]_vars

\* The admin builds, edits, publishes and unpublishes polls.
NextAdmin ==
  \/ \E pk \in PollIds, is_published \in BOOLEAN : PollUpdate(pk, is_published, PollEnd)
  \/ \E pk \in PollIds, text \in QuestionTexts, type \in AdminTypes, c \in ChoiceInputs :
       QuestionCreate(pk, text, type, c)
  \/ \E pk \in PollIds, id \in 1..MaxQuestions, text \in QuestionTexts,
        type \in AdminTypes, c \in ChoiceInputs :
       QuestionUpdate(pk, id, text, type, c)
  \/ \E pk \in PollIds, id \in 1..MaxQuestions : QuestionDestroy(pk, id)

SpecAdmin == InitAdmin /\ [][NextAdmin]_vars

(***************************************************************************)
(* Properties                                                              *)
(***************************************************************************)
\* The committed Answer rows that call c created.
CallRows(c) == {r \in store : r.call = c}
\* The question ids of a submission, in order.
SubmittedQuestions(r) == [i \in 1..Len(r.answers) |-> r.answers[i].question]
\* The voter of a row: the authenticated user, or else the anonymous id.
Voter(r) == IF r.user # NULL THEN <<"user", r.user>>
            ELSE <<"anonymous", r.anonymous_id>>

\* C1: vote_in_poll is all-or-nothing.  The committed rows of any call are
\* either none or exactly one per question of one poll; a call that is still
\* running or that ended in an error has no committed row, whatever it had
\* created before it failed.
AllOrNothing ==
  /\ \A c \in 1..calls :
       \/ CallRows(c) = {}
       \/ \E poll \in PollIds :
            /\ {r.question : r \in CallRows(c)} = QuestionsOf(poll)
            /\ Cardinality(CallRows(c)) = Cardinality(QuestionsOf(poll))
  /\ \A p \in Procs :
       resp[p].call # 0 /\ resp[p].status # 201 => CallRows(resp[p].call) = {}
  /\ \A p \in Procs :
       resp[p].status = 201 => Cardinality(CallRows(resp[p].call)) = resp[p].created

\* C1 witness: a call failed at its k-th answer, k >= 2, after it had created
\* rows, and none of them is committed.
AllOrNothingWitness ==
  \E p \in Procs : /\ resp[p].status = 400
                   /\ resp[p].created >= 1
                   /\ CallRows(resp[p].call) = {}

\* C2: after any sequence of vote_in_poll calls the store holds at most one
\* Answer row per voter and question.
NoDoubleVote ==
  \A r1, r2 \in store :
    Voter(r1) = Voter(r2) /\ r1.question = r2.question => r1 = r2

\* C3: two concurrent calls of one voter never both commit: no two committed
\* rows share a (user, anonymous_id, question) key in which exactly one of
\* user and anonymous_id is NULL.
NoConcurrentDoubleVote ==
  \A r1, r2 \in store :
    /\ r1.user = r2.user
    /\ r1.anonymous_id = r2.anonymous_id
    /\ r1.question = r2.question
    /\ (r1.user = NULL) # (r1.anonymous_id = NULL)
    => r1 = r2

\* C4: a vote on a poll that is not active is rejected: a request enters the
\* write phase only for a poll of get_queryset().
VoteOnlyInActivePoll ==
  [][\A p \in Procs :
       pc[p] = "idle" /\ pc'[p] # "idle" => req'[p].pk \in get_queryset]_vars

\* C5: a submission is accepted only if its question ids are exactly the
\* poll's question ids, each once; validation writes nothing, and a rejected
\* request leaves the store as it was.
SubmissionCompleteness ==
  [][\A p \in Procs :
       /\ (\A q \in Procs : pc[q] = "idle") => store' = store
       /\ pc[p] = "idle" /\ pc'[p] # "idle" =>
            /\ Range(SubmittedQuestions(req'[p])) = QuestionsOf(req'[p].pk)
            /\ Len(req'[p].answers) = Cardinality(QuestionsOf(req'[p].pk))]_vars

\* C5 witness: a complete submission for the two questions of poll 1 was
\* accepted and its rows are written.
SubmissionCompletenessWitness ==
  \E p \in Procs : /\ pc[p] = "commit"
                   /\ req[p].pk = 1
                   /\ {r.question : r \in tx[p]} = QuestionsOf(1)
                   /\ Cardinality(tx[p]) = 2

\* C6: every accepted answer to a single_choice question carries exactly one
\* choice and no text.
SingleChoiceShape ==
  \A p \in Procs :
    pc[p] # "idle" =>
      \A i \in 1..Len(req[p].answers) :
        LET a == req[p].answers[i] IN
        QuestionById(a.question).type = SINGLE =>
          a.has_choice /\ Len(a.choice) = 1 /\ a.text = NoText

\* C7: every stored Answer row has exactly one of user / anonymous_id set.
ExactlyOneIdentity ==
  \A r \in store : (r.user = NULL) # (r.anonymous_id = NULL)

\* C8: while a poll is published its questions and their choices do not
\* change, and a question create, update or delete under it is answered with
\* a validation error (404 when the update names no question of the poll).
PublishedPollFrozen ==
  [][\A poll \in PollIds :
       polls[poll].is_published =>
         /\ {q \in questions' : q.poll = poll} = {q \in questions : q.poll = poll}
         /\ \A q \in QuestionsOf(poll) :
              {c \in choices' : c.question = q} = {c \in choices : c.question = q}
         /\ (last'.poll = poll /\ polls' = polls) => last'.status \in {400, 404}]_vars

\* C8 witness: a question request under a published poll that has a question
\* was refused.
PublishedPollFrozenWitness ==
  \E poll \in PollIds : /\ polls[poll].is_published
                        /\ QuestionsOf(poll) # {}
                        /\ last = [poll |-> poll, status |-> 400]

\* C9: a question that a request adds comes from an accepted create and, when
\* single_choice, has exactly one choice; a request that is not accepted
\* leaves the Question and Choice rows as they were.
SingleChoiceCreate ==
  [][/\ last'.status \notin {200, 201, 204} =>
          questions' = questions /\ choices' = choices
     /\ \A q \in questions' :
          q.id \notin QuestionIds =>
            /\ last'.status = 201
            /\ q.type = SINGLE =>
                 Cardinality({c \in choices' : c.question = q.id}) = 1]_vars

\* C9 witness: a single_choice question was created with its one choice.
SingleChoiceCreateWitness ==
  /\ last.status = 201
  /\ \E q \in questions : q.type = SINGLE /\ Cardinality(ChoicesOf(q.id)) = 1

\* C10: every choice linked to a stored Answer belongs to the Answer's
\* question.
ChoiceLinksInQuestion ==
  \A r \in store : \A c \in r.choice : ChoiceById(c).question = r.question

====
